---- MODULE Spec2Model ----
(***************************************************************************)
(* A model of rite, a static-site generator: the post repository           *)
(* (src/post.rs), the footnote/sidenote rewriting of the Markdown engine   *)
(* and the site builder (src/render.rs).                                   *)
(*                                                                         *)
(* Text is modelled as a sequence of one-character strings, so that byte   *)
(* offsets, substring search, formatting and parsing are computed the way  *)
(* the code computes them.                                                 *)
(***************************************************************************)
EXTENDS Integers, Sequences, FiniteSets, TLC

VARIABLES
    fs,      \* the posts directory: file name -> file contents
    repo,    \* the live Posts value of the running process, or NoRepo
    op,      \* the last operation taken
    result,  \* what the last Posts::new / create_post returned
    scan,    \* the directory entries the last Posts::new enumerated, in order
    doc,     \* a Markdown document, as the events the parser yields for it
    rendered, \* what notes made of doc, once it has run
    contentFiles, \* the content directory: the names of its files
    pc,      \* where a build stands
    cursor,  \* the index the running loop of a build is at
    log,     \* the artifacts a build has written, in order
    markdown, \* the post bodies as Posts::new loaded them, by position
    renders, \* how often a build passed each post's body to render_html
    parsed,  \* the events the parser yields to syntax_hl
    highlighted \* what syntax_hl returned for parsed, once it has run

repoVars == <<fs, repo, op, result, scan>>

notesVars == <<doc, rendered>>

buildVars == <<contentFiles, pc, cursor, log, markdown, renders>>

hlVars == <<parsed, highlighted>>

vars == <<fs, repo, op, result, scan, doc, rendered,
          contentFiles, pc, cursor, log, markdown, renders, parsed, highlighted>>

----------------------------------------------------------------------------
(* Text *)

NL == "\n"
QT == "\""

\* The characters the model uses, in ascending byte order (str's Ord).
Alphabet ==
    <<NL, " ", "!", QT, ",", "-", ".",
      "0", "1", "2", "3", "4", "5", "6", "7", "8", "9",
      ":", "<", "=", ">", "[", "]",
      "a", "b", "c", "d", "e", "f", "g", "h", "i", "j", "k", "l", "m",
      "n", "o", "p", "q", "r", "s", "t", "u", "v", "w", "x", "y", "z">>

Ord(c) == CHOOSE i \in 1..Len(Alphabet) : Alphabet[i] = c

Digits == <<"0", "1", "2", "3", "4", "5", "6", "7", "8", "9">>

IsDigit(c) == \E i \in 1..Len(Digits) : Digits[i] = c

DigitVal(c) == (CHOOSE i \in 1..Len(Digits) : Digits[i] = c) - 1

\* s[n..]
Drop(s, n) == SubSeq(s, n + 1, Len(s))

\* s[..n]
Take(s, n) == SubSeq(s, 1, n)

\* s[a..b]
Slice(s, a, b) == SubSeq(s, a + 1, b)

\* str::find: the byte offset of the first occurrence, -1 for None.
Find(hay, needle) ==
    LET hits == {i \in 0..(Len(hay) - Len(needle)) :
                    SubSeq(hay, i + 1, i + Len(needle)) = needle}
    IN  IF hits = {} THEN -1
        ELSE CHOOSE i \in hits : \A j \in hits : i <= j

\* Lexicographic byte order on strings (String's Ord): a < b.
StrLess(a, b) ==
    \E k \in 1..(Len(b)) :
        /\ k <= Len(a) + 1
        /\ \A j \in 1..(k - 1) : a[j] = b[j]
        /\ (k = Len(a) + 1 \/ Ord(a[k]) < Ord(b[k]))

StrLeq(a, b) == a = b \/ StrLess(a, b)

\* F(v), with v evaluated first.
Bind(v, F(_)) == CHOOSE r \in {F(x) : x \in {v}} : TRUE

RECURSIVE SplitOn(_, _)
SplitOn(s, sep) ==
    LET k == Find(s, sep)
    IN  IF k = -1 THEN <<s>>
        ELSE <<Take(s, k)>> \o SplitOn(Drop(s, k + Len(sep)), sep)

RECURSIVE Concat(_)
Concat(ss) ==
    IF ss = <<>> THEN <<>>
    ELSE IF Len(ss) = 1 THEN ss[1]
    ELSE LET h == Len(ss) \div 2
         IN  Concat(Take(ss, h)) \o Concat(Drop(ss, h))

\* Join with a separator.
RECURSIVE Join(_, _)
Join(ss, sep) ==
    IF ss = <<>> THEN <<>>
    ELSE IF Len(ss) = 1 THEN ss[1]
    ELSE ss[1] \o sep \o Join(Tail(ss), sep)

\* Decimal value of a string of digits.
RECURSIVE Num(_)
Num(s) == IF s = <<>> THEN 0 ELSE 10 * Num(Take(s, Len(s) - 1)) + DigitVal(s[Len(s)])

AllDigits(s) == \A i \in 1..Len(s) : IsDigit(s[i])

\* usize::to_string
RECURSIVE NatToString(_)
NatToString(n) ==
    IF n < 10 THEN <<Digits[n + 1]>>
    ELSE NatToString(n \div 10) \o <<Digits[(n % 10) + 1]>>

\* {:0w} formatting of a non-negative number.
Pad(n, w) ==
    LET s == NatToString(n)
    IN  IF Len(s) >= w THEN s ELSE [i \in 1..(w - Len(s)) |-> "0"] \o s

----------------------------------------------------------------------------
(* Paths *)

\* The offset of the extension's dot in a file name, -1 when there is none
\* (a leading dot starts no extension).
ExtDot(file) ==
    LET dots == {i \in 2..Len(file) : file[i] = "."}
    IN  IF dots = {} THEN -1 ELSE CHOOSE i \in dots : \A j \in dots : j <= i

\* Path::file_stem
FileStem(file) == IF ExtDot(file) = -1 THEN file ELSE Take(file, ExtDot(file) - 1)

\* Path::with_extension
WithExtension(file, ext) == FileStem(file) \o <<".">> \o ext

----------------------------------------------------------------------------
(* Dates *)

IsLeap(y) == (y % 4 = 0 /\ y % 100 # 0) \/ y % 400 = 0

DaysInMonth(y, m) ==
    IF m = 2 THEN (IF IsLeap(y) THEN 29 ELSE 28)
    ELSE IF m \in {4, 6, 9, 11} THEN 30 ELSE 31

\* Display of toml's Date and of chrono's NaiveDate (years 0..9999).
DateToString(d) ==
    Pad(d.year, 4) \o <<"-">> \o Pad(d.month, 2) \o <<"-">> \o Pad(d.day, 2)

IsDateShape(s) ==
    /\ Len(s) = 10
    /\ s[5] = "-" /\ s[8] = "-"
    /\ \A i \in {1, 2, 3, 4, 6, 7, 9, 10} : IsDigit(s[i])

IsTimeShape(s) ==
    /\ Len(s) = 8
    /\ s[3] = ":" /\ s[6] = ":"
    /\ \A i \in {1, 2, 4, 5, 7, 8} : IsDigit(s[i])

DateFields(s) ==
    [year |-> Num(Slice(s, 0, 4)), month |-> Num(Slice(s, 5, 7)),
     day |-> Num(Slice(s, 8, 10))]

\* NaiveDate::parse_from_str(s, "%Y-%m-%d"): the date must exist in the
\* calendar.
NaiveDateParse(s) ==
    IF ~IsDateShape(s) THEN [ok |-> FALSE]
    ELSE LET Valid(d) ==
                IF d.month \in 1..12 /\ d.day \in 1..DaysInMonth(d.year, d.month)
                THEN [ok |-> TRUE, date |-> d]
                ELSE [ok |-> FALSE]
         IN  Valid(DateFields(s))

----------------------------------------------------------------------------
(* The post header: TOML *)

Dash3 == <<"-", "-", "-">>

TOP_TAG == <<"<", "!", "-", "-", " ", "t", "o", "p", " ", "-", "-", ">">>

KeyTitle == <<"t", "i", "t", "l", "e">>
KeyDate == <<"d", "a", "t", "e">>
KeyTags == <<"t", "a", "g", "s">>
Assign == <<" ", "=", " ">>
ExtMd == <<"m", "d">>

Quoted(s) == <<QT>> \o s \o <<QT>>

NoDate == [some |-> FALSE]

SomeDate(d) == [some |-> TRUE, year |-> d.year, month |-> d.month, day |-> d.day]

\* toml::to_string(&PostHeader): one `key = value` line per field.
TomlToString(h) ==
    KeyTitle \o Assign \o Quoted(h.title) \o <<NL>>
    \o KeyDate \o Assign \o DateToString(h.date) \o <<NL>>
    \o KeyTags \o Assign \o <<"[">>
    \o Join([i \in 1..Len(h.tags) |-> Quoted(h.tags[i])], <<",", " ">>)
    \o <<"]">> \o <<NL>>

IsQuoted(v) ==
    /\ Len(v) >= 2
    /\ v[1] = QT /\ v[Len(v)] = QT
    /\ \A i \in 2..(Len(v) - 1) : v[i] # QT

Unquote(v) == SubSeq(v, 2, Len(v) - 1)

\* A TOML value: a basic string, an array of strings, a local date, a local
\* time, an integer.  toml's Datetime parser accepts any month 1..12 and any
\* day 1..31.
TomlValue(v) ==
    IF IsQuoted(v) THEN [type |-> "string", val |-> Unquote(v)]
    ELSE IF Len(v) >= 2 /\ v[1] = "[" /\ v[Len(v)] = "]" THEN
        LET Items(inner) == IF inner = <<>> THEN <<>> ELSE SplitOn(inner, <<",", " ">>)
            Array(items) ==
                IF \A i \in 1..Len(items) : IsQuoted(items[i])
                THEN [type |-> "array",
                      val |-> [i \in 1..Len(items) |-> Unquote(items[i])]]
                ELSE [type |-> "invalid"]
        IN  Array(Items(SubSeq(v, 2, Len(v) - 1)))
    ELSE IF IsDateShape(v) THEN
        LET Date(d) ==
                IF d.month \in 1..12 /\ d.day \in 1..31
                THEN [type |-> "datetime", val |-> SomeDate(d)]
                ELSE [type |-> "invalid"]
        IN  Date(DateFields(v))
    ELSE IF IsTimeShape(v) THEN
        IF Num(Slice(v, 0, 2)) <= 23 /\ Num(Slice(v, 3, 5)) <= 59
           /\ Num(Slice(v, 6, 8)) <= 60
        THEN [type |-> "datetime", val |-> NoDate]
        ELSE [type |-> "invalid"]
    ELSE IF v # <<>> /\ AllDigits(v) THEN [type |-> "integer", val |-> Num(v)]
    ELSE [type |-> "invalid"]

KeyValue(line) ==
    LET At(k) ==
            IF k <= 0 THEN [key |-> <<>>, value |-> [type |-> "invalid"]]
            ELSE [key |-> Take(line, k), value |-> TomlValue(Drop(line, k + Len(Assign)))]
    IN  At(Find(line, Assign))

\* toml::from_str::<PostHeader>: every line is `key = value`, no key is
\* given twice, and title (string), date (datetime) and tags (array of
\* strings) are all present.
TomlFromStr(toml) ==
    LET Has(kv, key, type) ==
            \E i \in 1..Len(kv) : kv[i].key = key /\ kv[i].value.type = type
        Get(kv, key) == kv[CHOOSE i \in 1..Len(kv) : kv[i].key = key].value.val
        Header(kv) ==
            IF /\ \A i \in 1..Len(kv) : kv[i].value.type # "invalid"
               /\ \A i, j \in 1..Len(kv) : kv[i].key = kv[j].key => i = j
               /\ Has(kv, KeyTitle, "string") /\ Has(kv, KeyDate, "datetime")
               /\ Has(kv, KeyTags, "array")
            THEN [ok |-> TRUE, title |-> Get(kv, KeyTitle), date |-> Get(kv, KeyDate),
                  tags |-> Get(kv, KeyTags)]
            ELSE [ok |-> FALSE]
        Pairs(lines) == [i \in 1..Len(lines) |-> KeyValue(lines[i])]
    IN  Header(Pairs(SelectSeq(SplitOn(toml, <<NL>>), LAMBDA l : l # <<>>)))

----------------------------------------------------------------------------
(* Posts *)

\* The persisted layout: "---\n{header}---\n\n{body}".
PostFormat(header, body) == Dash3 \o <<NL>> \o header \o Dash3 \o <<NL, NL>> \o body

Panicked == [kind |-> "Panic", hasPath |-> FALSE, path |-> <<>>]

ErrReadPostHeader(path) == [kind |-> "ReadPostHeader", hasPath |-> TRUE, path |-> path]

ErrChronoParse == [kind |-> "ChronoParse", hasPath |-> FALSE, path |-> <<>>]

\* Post::read.  `top` is -1 for None.
PostRead(path, contents) ==
    LET Built(hdr, content, date) ==
            IF ~date.ok THEN ErrChronoParse
            ELSE [kind |-> "Ok", hasPath |-> FALSE, path |-> <<>>,
                  post |-> [name |-> FileStem(path),
                            title |-> hdr.title,
                            date |-> date.date,
                            tags |-> hdr.tags,
                            content |-> content,
                            top |-> Find(content, TOP_TAG)]]
        Parsed(header_end, hdr) ==
            IF ~hdr.ok THEN ErrReadPostHeader(path)
            ELSE IF ~hdr.date.some THEN Panicked
            ELSE IF header_end + 5 > Len(contents) THEN Panicked
            ELSE Built(hdr, Drop(contents, header_end + 5),
                       NaiveDateParse(DateToString(hdr.date)))
        Delimited(header_end) ==
            Parsed(header_end, TomlFromStr(Slice(contents, 4, header_end)))
        Found(k) == IF k = -1 THEN Panicked ELSE Delimited(k + 4)
    IN  IF Len(contents) < 4 THEN Panicked
        ELSE Found(Find(Drop(contents, 4), Dash3))

\* Vec::reverse
RECURSIVE Reverse(_)
Reverse(s) ==
    IF Len(s) <= 1 THEN s
    ELSE LET h == Len(s) \div 2
         IN  Reverse(Drop(s, h)) \o Reverse(Take(s, h))

\* The sort key of collect_posts: format!("{}-{}", date, title).
SortKey(post) == DateToString(post.date) \o <<"-">> \o post.title

\* Vec::sort_by_key is a stable sort: an element goes after every element
\* whose key is not greater.
InsertByKey(sorted, p) ==
    LET k == Cardinality({i \in 1..Len(sorted) : StrLeq(SortKey(sorted[i]), SortKey(p))})
    IN  Take(sorted, k) \o <<p>> \o Drop(sorted, k)

RECURSIVE SortByKey(_)
SortByKey(s) ==
    IF s = <<>> THEN <<>>
    ELSE InsertByKey(SortByKey(Take(s, Len(s) - 1)), s[Len(s)])

\* The ordering step of collect_posts: sort by key, then reverse.
OrderPosts(posts) == Reverse(SortByKey(posts))

\* The loop of collect_posts over the directory entries, in the order the
\* directory enumeration returns them; the first failing read ends it.
RECURSIVE ReadEntries(_, _)
ReadEntries(entries, acc) ==
    LET Push(r) ==
            IF r.kind # "Ok" THEN r
            ELSE ReadEntries(Tail(entries), Append(acc, r.post))
    IN  IF entries = <<>>
        THEN [kind |-> "Ok", hasPath |-> FALSE, path |-> <<>>, posts |-> acc]
        ELSE Push(PostRead(Head(entries).path, Head(entries).contents))

\* collect_posts
CollectPosts(entries) ==
    LET Ordered(r) ==
            IF r.kind # "Ok" THEN r
            ELSE [r EXCEPT !.posts = OrderPosts(r.posts)]
    IN  Ordered(ReadEntries(entries, <<>>))

InsertString(sorted, t) ==
    LET k == Cardinality({i \in 1..Len(sorted) : StrLeq(sorted[i], t)})
    IN  Take(sorted, k) \o <<t>> \o Drop(sorted, k)

\* Vec<String>::sort_unstable
RECURSIVE SortStrings(_)
SortStrings(s) ==
    IF s = <<>> THEN <<>>
    ELSE InsertString(SortStrings(Take(s, Len(s) - 1)), s[Len(s)])

\* Vec::dedup: removes consecutive repeated elements.
RECURSIVE Dedup(_)
Dedup(s) ==
    IF Len(s) <= 1 THEN s
    ELSE LET rest == Dedup(Take(s, Len(s) - 1))
         IN  IF s[Len(s)] = s[Len(s) - 1] THEN rest ELSE Append(rest, s[Len(s)])

\* collect_tags without the dedup.
CollectTagsNoDedup(posts) ==
    SortStrings(Concat([i \in 1..Len(posts) |-> posts[i].tags]))

\* collect_tags
CollectTags(posts) ==
    Dedup(SortStrings(Concat([i \in 1..Len(posts) |-> posts[i].tags])))

NoRepo == [live |-> FALSE, posts |-> <<>>, tags |-> <<>>]

\* Posts::new
PostsNew(entries) ==
    LET Collected(r) ==
            IF r.kind # "Ok" THEN [result |-> r, repo |-> NoRepo]
            ELSE [result |-> r,
                  repo |-> [live |-> TRUE, posts |-> r.posts,
                            tags |-> CollectTags(r.posts)]]
    IN  Collected(CollectPosts(entries))

\* The post create_post synthesizes.
NewPost(posts, date) ==
    [name |-> NatToString(Len(posts)), title |-> <<>>, date |-> date,
     tags |-> <<>>, content |-> <<>>, top |-> -1]

\* The header create_post serializes: the date's fields as u16, u8, u8.
NewHeader(date) ==
    [title |-> <<>>,
     date |-> [year |-> date.year % 65536, month |-> date.month % 256,
               day |-> date.day % 256],
     tags |-> <<>>]

\* The file create_post writes: its name and its contents.
NewPostPath(post) == WithExtension(post.name, ExtMd)

\* The file with a single line break after the closing delimiter.
NewPostFileNoBlankLine(date) ==
    Dash3 \o <<NL>> \o TomlToString(NewHeader(date)) \o Dash3 \o <<NL>> \o TOP_TAG

NewPostFile(date) == PostFormat(TomlToString(NewHeader(date)), TOP_TAG)

----------------------------------------------------------------------------
(* The Markdown engine: events *)

\* pulldown_cmark::Event.  `text` holds a Text/Code/Html event's string and
\* the label of a FootnoteReference or of a FootnoteDefinition tag.
Start(tag) == [kind |-> "Start", tag |-> tag, text |-> <<>>]
End(tag) == [kind |-> "End", tag |-> tag, text |-> <<>>]
StartNote(label) == [kind |-> "Start", tag |-> "FootnoteDefinition", text |-> label]
EndNote(label) == [kind |-> "End", tag |-> "FootnoteDefinition", text |-> label]
Text(t) == [kind |-> "Text", tag |-> "", text |-> t]
Code(t) == [kind |-> "Code", tag |-> "", text |-> t]
Html(t) == [kind |-> "Html", tag |-> "", text |-> t]
FootnoteReference(label) == [kind |-> "FootnoteReference", tag |-> "", text |-> label]
SoftBreak == [kind |-> "SoftBreak", tag |-> "", text |-> <<>>]

\* The events of a paragraph and of a footnote definition.
Paragraph(inlines) == <<Start("Paragraph")>> \o inlines \o <<End("Paragraph")>>

FootnoteDefinition(label, blocks) ==
    <<StartNote(label)>> \o Concat(blocks) \o <<EndNote(label)>>

IsStartNote(e) == e.kind = "Start" /\ e.tag = "FootnoteDefinition"
IsEndNote(e) == e.kind = "End" /\ e.tag = "FootnoteDefinition"
IsParagraphEdge(e) == e.kind \in {"Start", "End"} /\ e.tag = "Paragraph"

\* label.starts_with('s')
StartsWithS(label) == Len(label) >= 1 /\ label[1] = "s"

\* The fixed markup of the rewrite.  A markup literal is one element of the
\* text it is part of.
SidenoteOpen == <<"<span class=\"sidenote-number\"><small class=\"sidenote\">">>
SidenoteClose == <<"</small></span>">>
NoteOpen(label) == <<"<p><sup>">> \o label \o <<"</sup> ">>
NoteClose == <<"</p>">>

SidenoteSpan(note) == SidenoteOpen \o note \o SidenoteClose

\* One iteration of the loop of collect_sidenotes.
CollectStep(st, e) ==
    IF IsStartNote(e) THEN [st EXCEPT !.in_note = TRUE]
    ELSE IF IsEndNote(e) THEN
        [sidenotes |-> Append(st.sidenotes, st.buf), buf |-> <<>>, in_note |-> FALSE]
    ELSE IF e.kind = "Text" /\ st.in_note THEN [st EXCEPT !.buf = st.buf \o e.text]
    ELSE IF e.kind = "SoftBreak" /\ st.in_note THEN [st EXCEPT !.buf = st.buf \o <<" ">>]
    ELSE st

\* The loop of collect_sidenotes over the events `rest`, from state st (they
\* are taken in order; the halving only keeps the evaluation shallow).
RECURSIVE CollectLoop(_, _)
CollectLoop(st, rest) ==
    IF rest = <<>> THEN st
    ELSE IF Len(rest) = 1 THEN CollectStep(st, rest[1])
    ELSE LET h == Len(rest) \div 2
         IN  Bind(CollectLoop(st, Take(rest, h)),
                  LAMBDA mid : CollectLoop(mid, Drop(rest, h)))

\* collect_sidenotes
CollectSidenotes(events) ==
    Reverse(CollectLoop([sidenotes |-> <<>>, buf |-> <<>>, in_note |-> FALSE],
                        events).sidenotes)

\* The iteration without the arm that drops the paragraph starts and ends
\* inside a footnote definition.
NotesStepKeepParagraphs(st, e) ==
    IF e.kind = "FootnoteReference" THEN
        IF StartsWithS(e.text) THEN
            IF st.sidenotes # <<>> THEN
                [st EXCEPT !.sidenotes = Take(st.sidenotes, Len(st.sidenotes) - 1),
                           !.pushed = <<Html(SidenoteSpan(st.sidenotes[Len(st.sidenotes)]))>>]
            ELSE [st EXCEPT !.pushed = <<>>]
        ELSE [st EXCEPT !.pushed = <<e>>]
    ELSE IF IsStartNote(e) THEN
        IF ~StartsWithS(e.text)
        THEN [st EXCEPT !.in_note = TRUE, !.pushed = <<Html(NoteOpen(e.text))>>]
        ELSE [st EXCEPT !.in_note = TRUE, !.in_sidenote = TRUE, !.pushed = <<>>]
    ELSE IF IsEndNote(e) THEN
        IF ~StartsWithS(e.text)
        THEN [st EXCEPT !.in_note = FALSE, !.pushed = <<Html(NoteClose)>>]
        ELSE [st EXCEPT !.in_note = FALSE, !.in_sidenote = FALSE, !.pushed = <<>>]
    ELSE IF e.kind = "Text" /\ st.in_sidenote THEN [st EXCEPT !.pushed = <<>>]
    ELSE [st EXCEPT !.pushed = <<e>>]

\* One iteration of the loop of notes: the state after `e`, with what the
\* iteration pushed to the result in `pushed`.
NotesStep(st, e) ==
    IF e.kind = "FootnoteReference" THEN
        IF StartsWithS(e.text) THEN
            IF st.sidenotes # <<>> THEN
                [st EXCEPT !.sidenotes = Take(st.sidenotes, Len(st.sidenotes) - 1),
                           !.pushed = <<Html(SidenoteSpan(st.sidenotes[Len(st.sidenotes)]))>>]
            ELSE [st EXCEPT !.pushed = <<>>]
        ELSE [st EXCEPT !.pushed = <<e>>]
    ELSE IF IsStartNote(e) THEN
        IF ~StartsWithS(e.text)
        THEN [st EXCEPT !.in_note = TRUE, !.pushed = <<Html(NoteOpen(e.text))>>]
        ELSE [st EXCEPT !.in_note = TRUE, !.in_sidenote = TRUE, !.pushed = <<>>]
    ELSE IF IsEndNote(e) THEN
        IF ~StartsWithS(e.text)
        THEN [st EXCEPT !.in_note = FALSE, !.pushed = <<Html(NoteClose)>>]
        ELSE [st EXCEPT !.in_note = FALSE, !.in_sidenote = FALSE, !.pushed = <<>>]
    ELSE IF IsParagraphEdge(e) /\ st.in_note THEN [st EXCEPT !.pushed = <<>>]
    ELSE IF e.kind = "Text" /\ st.in_sidenote THEN [st EXCEPT !.pushed = <<>>]
    ELSE [st EXCEPT !.pushed = <<e>>]

\* The loop of notes over the events `rest`, from state st; `emitted` collects what
\* each iteration pushed.
RECURSIVE NotesLoop(_, _)
NotesLoop(st, rest) ==
    IF rest = <<>> THEN st
    ELSE IF Len(rest) = 1 THEN
        Bind(NotesStep(st, rest[1]),
             LAMBDA after : [after EXCEPT !.emitted = Append(st.emitted, after.pushed)])
    ELSE LET h == Len(rest) \div 2
         IN  Bind(NotesLoop(st, Take(rest, h)),
                  LAMBDA mid : NotesLoop(mid, Drop(rest, h)))

\* What notes pushes for each event of its input, by position.
NotesPushed(events) ==
    Bind([in_note |-> FALSE, in_sidenote |-> FALSE,
          sidenotes |-> CollectSidenotes(events), pushed |-> <<>>,
          emitted |-> <<>>],
         LAMBDA st : NotesLoop(st, events).emitted)

\* notes
Notes(events) == Concat(NotesPushed(events))

----------------------------------------------------------------------------
(* The Markdown engine: render_html *)

StartCode(lang) == [kind |-> "Start", tag |-> "CodeBlock", text |-> lang]
EndCode(lang) == [kind |-> "End", tag |-> "CodeBlock", text |-> lang]

\* Tag::CodeBlock(CodeBlockKind::Fenced(lang)); CodeBlockKind::Indented is
\* the tag "CodeBlockIndented".
IsCodeBlock(e) == e.tag \in {"CodeBlock", "CodeBlockIndented"}

\* The file extensions the syntax set knows.
KnownExtensions == {<<"r", "s">>, <<"p", "y">>}

PlainText == <<"t", "x", "t">>

\* find_syntax_by_extension, with the plain-text fallback; the language of
\* an indented block is the empty string.
SyntaxFor(e) ==
    LET lang == IF e.tag = "CodeBlock" THEN e.text ELSE <<>>
    IN  IF lang = <<>> THEN PlainText
        ELSE IF lang \in KnownExtensions THEN lang
        ELSE PlainText

\* highlighted_html_for_string: the fragment for `code` under `syntax`.
HighlightedHtml(code, syntax) ==
    <<"<pre style=\"background-color:#000000;\">", "<!-- ">> \o syntax \o <<" -->">>
    \o code \o <<"</pre>">>

\* The iteration that keeps the buffer at the end of a code block.
SyntaxHlStepKeepBuffer(st, e, broken) ==
    IF st.failed THEN st
    ELSE IF e.kind = "Start" /\ IsCodeBlock(e) THEN [st EXCEPT !.in_code_block = TRUE]
    ELSE IF e.kind = "End" /\ IsCodeBlock(e) /\ st.in_code_block THEN
        IF st.to_highlight \in broken THEN [st EXCEPT !.failed = TRUE]
        ELSE [st EXCEPT
                !.result = Append(st.result,
                                  Html(HighlightedHtml(st.to_highlight, SyntaxFor(e)))),
                !.in_code_block = FALSE]
    ELSE IF e.kind = "Text" THEN
        IF st.in_code_block
        THEN [st EXCEPT !.to_highlight = st.to_highlight \o e.text]
        ELSE [st EXCEPT !.result = Append(st.result, e)]
    ELSE [st EXCEPT !.result = Append(st.result, e)]

\* One iteration of the loop of syntax_hl.  `broken` holds the texts the
\* highlighting engine fails on; after a failure the function has returned.
SyntaxHlStep(st, e, broken) ==
    IF st.failed THEN st
    ELSE IF e.kind = "Start" /\ IsCodeBlock(e) THEN [st EXCEPT !.in_code_block = TRUE]
    ELSE IF e.kind = "End" /\ IsCodeBlock(e) /\ st.in_code_block THEN
        IF st.to_highlight \in broken THEN [st EXCEPT !.failed = TRUE]
        ELSE [st EXCEPT
                !.result = Append(st.result,
                                  Html(HighlightedHtml(st.to_highlight, SyntaxFor(e)))),
                !.to_highlight = <<>>,
                !.in_code_block = FALSE]
    ELSE IF e.kind = "Text" THEN
        IF st.in_code_block
        THEN [st EXCEPT !.to_highlight = st.to_highlight \o e.text]
        ELSE [st EXCEPT !.result = Append(st.result, e)]
    ELSE [st EXCEPT !.result = Append(st.result, e)]

RECURSIVE SyntaxHlLoop(_, _, _)
SyntaxHlLoop(st, rest, broken) ==
    IF rest = <<>> THEN st
    ELSE IF Len(rest) = 1 THEN SyntaxHlStep(st, rest[1], broken)
    ELSE LET h == Len(rest) \div 2
         IN  Bind(SyntaxHlLoop(st, Take(rest, h), broken),
                  LAMBDA mid : SyntaxHlLoop(mid, Drop(rest, h), broken))

\* syntax_hl: [ok |-> TRUE, events |-> ...] or the error.
SyntaxHl(events, broken) ==
    Bind(SyntaxHlLoop([result |-> <<>>, to_highlight |-> <<>>,
                       in_code_block |-> FALSE, failed |-> FALSE], events, broken),
         LAMBDA st : IF st.failed THEN [ok |-> FALSE, events |-> <<>>]
                     ELSE [ok |-> TRUE, events |-> st.result])

\* Parser::new_ext on a body without Markdown markup: a body that starts
\* with '<' is one HTML block, any other text is one paragraph.
ParseMarkdown(text) ==
    IF text = <<>> THEN <<>>
    ELSE IF text[1] = "<" THEN <<Html(text)>>
    ELSE Paragraph(<<Text(text)>>)

\* The number push_html gives a footnote reference: the rank of its label
\* among the labels referenced so far.
FootnoteNumber(events, i) ==
    Cardinality({events[j].text : j \in {k \in 1..i : events[k].kind = "FootnoteReference"}})

\* html::push_html, event by event.
PushHtmlEvent(events, i) ==
    LET e == events[i]
    IN  IF e.kind = "Start" THEN
            IF e.tag = "Paragraph" THEN <<"<p>">>
            ELSE IF e.tag = "Emphasis" THEN <<"<em>">>
            ELSE <<"<div class=\"footnote-definition\">">>
        ELSE IF e.kind = "End" THEN
            IF e.tag = "Paragraph" THEN <<"</p>", NL>>
            ELSE IF e.tag = "Emphasis" THEN <<"</em>">>
            ELSE <<"</div>", NL>>
        ELSE IF e.kind = "Code" THEN <<"<code>">> \o e.text \o <<"</code>">>
        ELSE IF e.kind = "SoftBreak" THEN <<NL>>
        ELSE IF e.kind = "FootnoteReference" THEN
            <<"<sup class=\"footnote-reference\"><a href=\"#">> \o e.text \o <<"\">">>
            \o NatToString(FootnoteNumber(events, i)) \o <<"</a></sup>">>
        ELSE e.text

PushHtml(events) == Concat([i \in 1..Len(events) |-> PushHtmlEvent(events, i)])

\* Markdown::render_html
RenderHtml(text, broken) ==
    Bind(SyntaxHl(ParseMarkdown(text), broken),
         LAMBDA hl : IF ~hl.ok THEN [ok |-> FALSE, html |-> <<>>]
                     ELSE [ok |-> TRUE, html |-> PushHtml(Notes(hl.events))])

----------------------------------------------------------------------------
(* The posts directory and the runs of the program over it *)

\* create_post stops being called once the repository holds this many posts.
MaxPosts == 3

\* The file names an author gives to post files.
UserNames ==
    {<<"0", ".", "m", "d">>, <<"1", ".", "m", "d">>, <<"2", ".", "m", "d">>}

DateA == [year |-> 2021, month |-> 3, day |-> 1]
DateB == [year |-> 2020, month |-> 12, day |-> 31]
DateLeap == [year |-> 2024, month |-> 2, day |-> 29]
DateFeb30 == [year |-> 2021, month |-> 2, day |-> 30]

\* The dates Utc::today() returns.
Today == {DateA, DateLeap}

Body == <<"h", "i">>

ValidFile(title, date, tags) ==
    PostFormat(TomlToString([title |-> title, date |-> date, tags |-> tags]), Body)

\* Two posts with the same date and title, one with another title, one
\* with another date.
ValidContents ==
    {ValidFile(<<"a">>, DateA, <<<<"x">>>>),
     ValidFile(<<"a">>, DateA, <<<<"y">>, <<"x">>, <<"y">>>>),
     ValidFile(<<"b">>, DateA, <<>>),
     ValidFile(<<"a">>, DateB, <<<<"x">>, <<"z">>>>)}

\* A header that is never closed.
FileNoCloser ==
    Dash3 \o <<NL>> \o TomlToString([title |-> <<"a">>, date |-> DateA, tags |-> <<>>])
    \o Body

\* A header that does not deserialize: title is an integer, date and tags
\* are missing.
FileBadHeader == PostFormat(KeyTitle \o Assign \o <<"3", NL>>, Body)

\* A date TOML accepts and the calendar does not have.
FileBadDate == ValidFile(<<"a">>, DateFeb30, <<>>)

\* A date field holding a local time: a TOML datetime with no date part.
FileTimeOnly ==
    PostFormat(KeyTitle \o Assign \o Quoted(<<"a">>) \o <<NL>>
               \o KeyDate \o Assign \o <<"0", "7", ":", "3", "2", ":", "0", "0", NL>>
               \o KeyTags \o Assign \o <<"[", "]", NL>>,
               Body)

UserContents ==
    ValidContents \cup {FileNoCloser, FileBadHeader, FileBadDate, FileTimeOnly}

\* Every order a directory enumeration may return the entries of `dir` in.
Enumerations(dir) ==
    LET names == DOMAIN dir
        n == Cardinality(names)
    IN  {[i \in 1..n |-> [path |-> o[i], contents |-> dir[o[i]]]] :
            o \in {f \in [1..n -> names] : \A i, j \in 1..n : f[i] = f[j] => i = j}}

NoResult == [kind |-> "None", hasPath |-> FALSE, path |-> <<>>]

RepoInit ==
    /\ fs = <<>>
    /\ repo = NoRepo
    /\ op = "idle"
    /\ result = NoResult
    /\ scan = <<>>

\* An author writes a post file while the program is not running.
WriteFile ==
    /\ op = "idle"
    /\ \E n \in UserNames, c \in UserContents : fs' = (n :> c) @@ fs
    /\ UNCHANGED <<repo, op, result, scan>>
    /\ UNCHANGED <<notesVars, buildVars, hlVars>>

\* An author deletes a post file while the program is not running.
DeleteFile ==
    /\ op = "idle"
    /\ \E n \in DOMAIN fs : fs' = [m \in DOMAIN fs \ {n} |-> fs[m]]
    /\ UNCHANGED <<repo, op, result, scan>>
    /\ UNCHANGED <<notesVars, buildVars, hlVars>>

\* Posts::new(root), at the start of a run.
New ==
    /\ op = "idle"
    /\ \E entries \in Enumerations(fs) :
        LET Returned(r) ==
                /\ repo' = r.repo
                /\ result' = [kind |-> r.result.kind, hasPath |-> r.result.hasPath,
                              path |-> r.result.path]
        IN  /\ Returned(PostsNew(entries))
            /\ scan' = entries
    /\ op' = "new"
    /\ UNCHANGED fs
    /\ UNCHANGED <<notesVars, buildVars, hlVars>>

\* create_post putting the sequence back in order after the push.
CreatePostSorted ==
    /\ repo.live
    /\ Len(repo.posts) < MaxPosts
    /\ \E date \in Today :
        LET post == NewPost(repo.posts, date)
        IN  /\ fs' = (NewPostPath(post) :> NewPostFile(date)) @@ fs
            /\ repo' = [repo EXCEPT !.posts = OrderPosts(Append(repo.posts, post))]
            /\ result' = [kind |-> "Ok", hasPath |-> FALSE, path |-> <<>>,
                          post |-> post]
    /\ op' = "create"
    /\ UNCHANGED scan
    /\ UNCHANGED <<notesVars, buildVars, hlVars>>

\* Posts::create_post
CreatePost ==
    /\ repo.live
    /\ Len(repo.posts) < MaxPosts
    /\ \E date \in Today :
        LET post == NewPost(repo.posts, date)
        IN  /\ fs' = (NewPostPath(post) :> NewPostFile(date)) @@ fs
            /\ repo' = [repo EXCEPT !.posts = Append(repo.posts, post)]
            /\ result' = [kind |-> "Ok", hasPath |-> FALSE, path |-> <<>>,
                          post |-> post]
    /\ op' = "create"
    /\ UNCHANGED scan
    /\ UNCHANGED <<notesVars, buildVars, hlVars>>

\* The run ends: the repository value and the results are dropped.
Exit ==
    /\ op # "idle"
    /\ op' = "idle"
    /\ repo' = NoRepo
    /\ result' = NoResult
    /\ scan' = <<>>
    /\ UNCHANGED fs
    /\ UNCHANGED <<notesVars, buildVars, hlVars>>

----------------------------------------------------------------------------
(* Documents and their rewriting *)

\* A document holds at most this many blocks.
MaxBlocks == 3

L1 == <<"1">>
LS1 == <<"s", "1">>
LS2 == <<"s", "2">>

Labels == {L1, LS1, LS2}

\* Paragraphs of running text: with sidenote references, with an ordinary
\* footnote reference.
ParagraphChoices ==
    {Paragraph(<<Text(<<"a">>), FootnoteReference(LS1)>>),
     Paragraph(<<FootnoteReference(LS1), Text(<<"b">>), FootnoteReference(LS2)>>),
     Paragraph(<<Text(<<"a">>), FootnoteReference(L1), SoftBreak, Text(<<"b">>)>>)}

\* Footnote bodies: one paragraph of text; two paragraphs with a soft
\* break, inline markup, inline code and references.
BodyChoices ==
    {<<Paragraph(<<Text(<<"c">>)>>)>>,
     <<Paragraph(<<Text(<<"d">>), SoftBreak, Start("Emphasis"), Text(<<"e">>),
                   End("Emphasis"), Code(<<"f">>)>>),
       Paragraph(<<Text(<<"g">>), FootnoteReference(L1), FootnoteReference(LS2)>>)>>}

NotRendered == [done |-> FALSE, sidenotes |-> <<>>, pushed |-> <<>>, events |-> <<>>]

NotesInit ==
    /\ doc = <<>>
    /\ rendered = NotRendered

BlockCount(events) ==
    Cardinality({i \in 1..Len(events) :
        \/ IsStartNote(events[i])
        \/ /\ events[i].kind = "Start" /\ events[i].tag = "Paragraph"
           /\ \A a \in 1..(i - 1) :
                IsStartNote(events[a]) => \E b \in (a + 1)..(i - 1) : IsEndNote(events[b])})

\* The parser yields a paragraph.
AddParagraph ==
    /\ ~rendered.done
    /\ BlockCount(doc) < MaxBlocks
    /\ \E para \in ParagraphChoices : doc' = doc \o para
    /\ UNCHANGED rendered
    /\ UNCHANGED <<repoVars, buildVars, hlVars>>

\* The parser yields a footnote definition.
AddFootnoteDefinition ==
    /\ ~rendered.done
    /\ BlockCount(doc) < MaxBlocks
    /\ \E label \in Labels, body \in BodyChoices :
        doc' = doc \o FootnoteDefinition(label, body)
    /\ UNCHANGED rendered
    /\ UNCHANGED <<repoVars, buildVars, hlVars>>

\* notes(events), on the whole document.
RewriteNotes ==
    /\ ~rendered.done
    /\ rendered' = [done |-> TRUE, sidenotes |-> CollectSidenotes(doc),
                    pushed |-> NotesPushed(doc), events |-> Notes(doc)]
    /\ UNCHANGED doc
    /\ UNCHANGED <<repoVars, buildVars, hlVars>>

\* The next document.
NextDocument ==
    /\ rendered.done
    /\ doc' = <<>>
    /\ rendered' = NotRendered
    /\ UNCHANGED <<repoVars, buildVars, hlVars>>

----------------------------------------------------------------------------
(* Documents with code blocks and their highlighting *)

\* A parsed document holds at most this many blocks.
MaxHlBlocks == 3

\* The events of a code block: its start, one text event per line, its end.
CodeBlock(tag, lang, lines) ==
    <<[kind |-> "Start", tag |-> tag, text |-> lang]>>
    \o [i \in 1..Len(lines) |-> Text(lines[i])]
    \o <<[kind |-> "End", tag |-> tag, text |-> lang]>>

\* Fenced blocks with no language, a known one and an unknown one, and
\* indented blocks.
CodeBlockKinds ==
    {<<"CodeBlock", <<>>>>, <<"CodeBlock", <<"r", "s">>>>,
     <<"CodeBlock", <<"z", "z">>>>, <<"CodeBlockIndented", <<>>>>}

CodeLines == {<<>>, <<<<"x">>>>, <<<<"x">>, <<"y">>>>}

\* The blocks between code blocks: a paragraph with text and inline code, a
\* block of literal HTML.
PlainBlocks == {Paragraph(<<Text(<<"a">>), Code(<<"b">>)>>), <<Html(<<"<", "h", ">">>)>>}

\* The code texts the highlighting engine may fail on.
BrokenChoices == {{}, {<<"x", "y">>}}

NotHighlighted == [done |-> FALSE, broken |-> {}, ok |-> TRUE, events |-> <<>>]

HlInit ==
    /\ parsed = <<>>
    /\ highlighted = NotHighlighted

HlBlockCount(events) ==
    Cardinality({i \in 1..Len(events) :
        \/ events[i].kind = "Start"
        \/ events[i].kind = "Html"})

\* The parser yields a code block.
AddCodeBlock ==
    /\ ~highlighted.done
    /\ HlBlockCount(parsed) < MaxHlBlocks
    /\ \E k \in CodeBlockKinds, lines \in CodeLines :
        parsed' = parsed \o CodeBlock(k[1], k[2], lines)
    /\ UNCHANGED highlighted
    /\ UNCHANGED <<repoVars, notesVars, buildVars>>

\* The parser yields a block that is no code block.
AddPlainBlock ==
    /\ ~highlighted.done
    /\ HlBlockCount(parsed) < MaxHlBlocks
    /\ \E b \in PlainBlocks : parsed' = parsed \o b
    /\ UNCHANGED highlighted
    /\ UNCHANGED <<repoVars, notesVars, buildVars>>

\* syntax_hl(parser, ...), on the whole document.
HighlightSyntax ==
    /\ ~highlighted.done
    /\ \E broken \in BrokenChoices :
        LET Returned(r) ==
                highlighted' = [done |-> TRUE, broken |-> broken, ok |-> r.ok,
                                events |-> r.events]
        IN  Returned(SyntaxHl(parsed, broken))
    /\ UNCHANGED parsed
    /\ UNCHANGED <<repoVars, notesVars, buildVars>>

\* The next document.
NextParse ==
    /\ highlighted.done
    /\ parsed' = <<>>
    /\ highlighted' = NotHighlighted
    /\ UNCHANGED <<repoVars, notesVars, buildVars>>

----------------------------------------------------------------------------
(* The site builder: Renderer::render *)

RESERVED_CONTENT_NAMES == {<<"i", "n", "d", "e", "x">>, <<"p", "o", "s", "t", "s">>,
                           <<"4", "0", "4">>}

ExtHtml == <<"h", "t", "m", "l">>
ExtXml == <<"x", "m", "l">>

IndexHtml == <<"i", "n", "d", "e", "x", ".", "h", "t", "m", "l">>
NotFoundHtml == <<"4", "0", "4", ".", "h", "t", "m", "l">>

\* config.build_root, and below it config.posts_root and its tags directory.
BuildRoot == <<>>
PostsDir == <<"posts">>
TagsDir == <<"posts", "tags">>

\* An artifact written by fs::write(dest, render): the destination, what it
\* is an artifact of, and the post bodies its template was given.
Artifact(kind, dir, file, subject, bodies) ==
    [kind |-> kind, path |-> [dir |-> dir, file |-> file], subject |-> subject,
     bodies |-> bodies]

ContentDest(file) == WithExtension(FileStem(file), ExtHtml)

PostDest(post) == WithExtension(post.name, ExtHtml)

RssDest == WithExtension(<<"r", "s", "s">>, ExtXml)

TagDest(tag) == WithExtension(tag, ExtHtml)

Bodies(posts) == [i \in 1..Len(posts) |-> posts[i].content]

\* The files of the content directory, and the orders read_dir returns.
ContentNames ==
    {<<"i", "n", "d", "e", "x", ".", "m", "d">>,
     <<"a", "b", "o", "u", "t", ".", "m", "d">>,
     <<"a", "b", "o", "u", "t", ".", "t", "x", "t">>}

ContentOrders(names) ==
    LET n == Cardinality(names)
    IN  {f \in [1..n -> names] : \A i, j \in 1..n : f[i] = f[j] => i = j}

\* The artifacts of render_content over one enumeration of the directory.
ContentArtifacts(order) ==
    LET kept == SelectSeq(order, LAMBDA f : FileStem(f) \notin RESERVED_CONTENT_NAMES)
    IN  [i \in 1..Len(kept) |->
            Artifact("content", BuildRoot, ContentDest(kept[i]), FileStem(kept[i]), <<>>)]

\* The posts directories a build runs over.
BuildPostNames ==
    {<<"0", ".", "m", "d">>, <<"1", ".", "m", "d">>,
     <<"i", "n", "d", "e", "x", ".", "m", "d">>}

BuildPostContents ==
    {ValidFile(<<"a">>, DateA, <<<<"x">>>>),
     ValidFile(<<"b">>, DateB, <<<<"x">>, <<"x", ".", "y">>, <<"i", "n", "d", "e", "x">>>>),
     NewPostFile(DateLeap)}

BuildDirs ==
    UNION {[names -> BuildPostContents] : names \in SUBSET BuildPostNames}

BuildOff ==
    /\ contentFiles = {}
    /\ pc = "off"
    /\ cursor = 0
    /\ log = <<>>
    /\ markdown = <<>>
    /\ renders = <<>>

\* `rite build` starts on an emptied build directory.
BuildInit ==
    /\ fs \in BuildDirs
    /\ repo = NoRepo
    /\ op = "idle"
    /\ result = NoResult
    /\ scan = <<>>
    /\ contentFiles \in SUBSET ContentNames
    /\ pc = "render_index"
    /\ cursor = 0
    /\ log = <<>>
    /\ markdown = <<>>
    /\ renders = <<>>

\* render_index
RenderIndex ==
    /\ pc = "render_index"
    /\ log' = Append(log, Artifact("index", BuildRoot, IndexHtml, <<>>, <<>>))
    /\ pc' = "render_not_found"
    /\ UNCHANGED <<contentFiles, cursor, markdown, renders>>
    /\ UNCHANGED <<repoVars, notesVars, hlVars>>

\* render_not_found
RenderNotFound ==
    /\ pc = "render_not_found"
    /\ log' = Append(log, Artifact("not_found", BuildRoot, NotFoundHtml, <<>>, <<>>))
    /\ pc' = "render_content"
    /\ UNCHANGED <<contentFiles, cursor, markdown, renders>>
    /\ UNCHANGED <<repoVars, notesVars, hlVars>>

\* render_content
RenderContent ==
    /\ pc = "render_content"
    /\ \E order \in ContentOrders(contentFiles) : log' = log \o ContentArtifacts(order)
    /\ pc' = "posts_new"
    /\ UNCHANGED <<contentFiles, cursor, markdown, renders>>
    /\ UNCHANGED <<repoVars, notesVars, hlVars>>

\* Posts::new(&self.config.posts)?
LoadPosts ==
    /\ pc = "posts_new"
    /\ \E entries \in Enumerations(fs) :
        LET Returned(r) ==
                /\ repo' = r.repo
                /\ result' = [kind |-> r.result.kind, hasPath |-> r.result.hasPath,
                              path |-> r.result.path]
                /\ markdown' = Bodies(r.repo.posts)
                /\ renders' = [i \in 1..Len(r.repo.posts) |-> 0]
                /\ pc' = IF r.result.kind = "Ok" THEN "posts_index" ELSE "failed"
        IN  /\ Returned(PostsNew(entries))
            /\ scan' = entries
    /\ UNCHANGED <<fs, op>>
    /\ UNCHANGED <<contentFiles, cursor, log>>
    /\ UNCHANGED <<notesVars, hlVars>>

\* render_posts_and_tags: the posts index.
WritePostsIndex ==
    /\ pc = "posts_index"
    /\ log' = Append(log, Artifact("posts_index", PostsDir, IndexHtml, <<>>,
                                   Bodies(repo.posts)))
    /\ cursor' = 1
    /\ pc' = "post_body"
    /\ UNCHANGED <<contentFiles, markdown, renders>>
    /\ UNCHANGED <<repoVars, notesVars, hlVars>>

\* The loop iteration without the rendering: the post keeps its Markdown.
RenderBodyRaw(post) == [ok |-> TRUE, post |-> post]

\* What the loop over the posts does to a post before it writes it.
RenderBody(post) ==
    LET Assigned(r) == [ok |-> r.ok, post |-> [post EXCEPT !.content = r.html]]
    IN  Assigned(RenderHtml(post.content, {}))

\* render_posts_and_tags: post.content = self.markdown.render_html(...)?
RenderPostBody ==
    /\ pc = "post_body"
    /\ cursor <= Len(repo.posts)
    /\ LET Returned(r) ==
               /\ repo' = [repo EXCEPT !.posts[cursor] = r.post]
               /\ pc' = IF r.ok THEN "render_post" ELSE "failed"
       IN  Returned(RenderBody(repo.posts[cursor]))
    /\ renders' = [renders EXCEPT ![cursor] = @ + 1]
    /\ UNCHANGED <<fs, op, result, scan>>
    /\ UNCHANGED <<contentFiles, cursor, log, markdown>>
    /\ UNCHANGED <<notesVars, hlVars>>

\* render_post
RenderPost ==
    /\ pc = "render_post"
    /\ LET post == repo.posts[cursor]
       IN  log' = Append(log, Artifact("post", PostsDir, PostDest(post), post.name,
                                       <<post.content>>))
    /\ cursor' = cursor + 1
    /\ pc' = "post_body"
    /\ UNCHANGED <<contentFiles, markdown, renders>>
    /\ UNCHANGED <<repoVars, notesVars, hlVars>>

\* render_rss, once the loop over the posts is over.
RenderRss ==
    /\ pc = "post_body"
    /\ cursor > Len(repo.posts)
    /\ log' = Append(log, Artifact("rss", PostsDir, RssDest, <<>>, Bodies(repo.posts)))
    /\ pc' = "tags_index"
    /\ UNCHANGED <<contentFiles, cursor, markdown, renders>>
    /\ UNCHANGED <<repoVars, notesVars, hlVars>>

\* render_posts_and_tags: the tags index.
WriteTagsIndex ==
    /\ pc = "tags_index"
    /\ log' = Append(log, Artifact("tags_index", TagsDir, IndexHtml, <<>>, <<>>))
    /\ cursor' = 1
    /\ pc' = "render_tag"
    /\ UNCHANGED <<contentFiles, markdown, renders>>
    /\ UNCHANGED <<repoVars, notesVars, hlVars>>

\* render_tag
RenderTag ==
    /\ pc = "render_tag"
    /\ cursor <= Len(repo.tags)
    /\ LET tag == repo.tags[cursor]
       IN  log' = Append(log, Artifact("tag", TagsDir, TagDest(tag), tag,
                                       Bodies(repo.posts)))
    /\ cursor' = cursor + 1
    /\ UNCHANGED <<contentFiles, pc, markdown, renders>>
    /\ UNCHANGED <<repoVars, notesVars, hlVars>>

\* render returns Ok(()).
BuildDone ==
    /\ pc = "render_tag"
    /\ cursor > Len(repo.tags)
    /\ pc' = "done"
    /\ UNCHANGED <<contentFiles, cursor, log, markdown, renders>>
    /\ UNCHANGED <<repoVars, notesVars, hlVars>>

\* A read, a template or a write fails and `?` returns the error.
BuildFails ==
    /\ pc \notin {"off", "done", "failed"}
    /\ pc' = "failed"
    /\ UNCHANGED <<contentFiles, cursor, log, markdown, renders>>
    /\ UNCHANGED <<repoVars, notesVars, hlVars>>

----------------------------------------------------------------------------
(* Specifications *)

Init == RepoInit /\ NotesInit /\ BuildOff /\ HlInit

\* The post repository over the posts directory.
Next == WriteFile \/ DeleteFile \/ New \/ CreatePost \/ Exit

Spec == Init /\ [][Next]_vars

\* The rewriting of footnotes and sidenotes.
NotesNext == AddParagraph \/ AddFootnoteDefinition \/ RewriteNotes \/ NextDocument

SpecNotes == Init /\ [][NotesNext]_vars

\* A build of the site.
BuildStart == BuildInit /\ NotesInit /\ HlInit

BuildNext ==
    \/ RenderIndex \/ RenderNotFound \/ RenderContent \/ LoadPosts
    \/ WritePostsIndex \/ RenderPostBody \/ RenderPost \/ RenderRss
    \/ WriteTagsIndex \/ RenderTag \/ BuildDone \/ BuildFails

SpecBuild == BuildStart /\ [][BuildNext]_vars

\* The highlighting of code blocks.
HlNext == AddCodeBlock \/ AddPlainBlock \/ HighlightSyntax \/ NextParse

SpecHl == Init /\ [][HlNext]_vars

----------------------------------------------------------------------------
(* Claims about the post repository *)

DateLeq(d, e) ==
    \/ d.year < e.year
    \/ d.year = e.year /\ d.month < e.month
    \/ d.year = e.year /\ d.month = e.month /\ d.day <= e.day

\* (date, title) of p is not greater than (date, title) of q.
DateTitleLeq(p, q) ==
    \/ p.date # q.date /\ DateLeq(p.date, q.date)
    \/ p.date = q.date /\ StrLeq(p.title, q.title)

Descending(posts) ==
    \A i, j \in 1..Len(posts) : i < j => DateTitleLeq(posts[j], posts[i])

\* C1: after a successful load the posts are in descending (date, title)
\* order, and every enumeration order of the same directory yields the same
\* post sequence.
C1_OrderIndependentOfEnumeration ==
    (op = "new" /\ result.kind = "Ok") =>
        /\ Descending(repo.posts)
        /\ \A e \in Enumerations(fs) : CollectPosts(e).posts = repo.posts

AllTags(posts) == {posts[i].tags[j] : <<i, j>> \in
                    {<<i, j>> \in (1..Len(posts)) \X (1..6) :
                        j <= Len(posts[i].tags)}}

\* C2: tags() is strictly ascending and holds exactly the tags of the posts.
C2_TagsSortedAndExact ==
    repo.live =>
        /\ \A i \in 1..(Len(repo.tags) - 1) : StrLess(repo.tags[i], repo.tags[i + 1])
        /\ {repo.tags[i] : i \in 1..Len(repo.tags)} = AllTags(repo.posts)

\* Two posts share a tag, and one post repeats a tag.
C2_Witness ==
    /\ repo.live
    /\ \E i, j \in 1..Len(repo.posts) :
        /\ i # j
        /\ \E a \in 1..Len(repo.posts[i].tags), b \in 1..Len(repo.posts[j].tags) :
            repo.posts[i].tags[a] = repo.posts[j].tags[b]
    /\ \E i \in 1..Len(repo.posts) :
        \E a, b \in 1..Len(repo.posts[i].tags) :
            a # b /\ repo.posts[i].tags[a] = repo.posts[i].tags[b]
    /\ Len(repo.tags) >= 3

\* The file opens a header and never closes it.
NoCloser(contents) ==
    /\ Len(contents) >= 4
    /\ Take(contents, 3) = Dash3
    /\ Find(Drop(contents, 4), Dash3) = -1

\* The header is delimited and does not deserialize.
HeaderFails(contents) ==
    /\ Len(contents) >= 4
    /\ Find(Drop(contents, 4), Dash3) # -1
    /\ ~TomlFromStr(Slice(contents, 4, Find(Drop(contents, 4), Dash3) + 4)).ok

\* The header deserializes and its date field is no calendar date.
DateFails(contents) ==
    /\ Len(contents) >= 4
    /\ Find(Drop(contents, 4), Dash3) # -1
    /\ LET hdr == TomlFromStr(Slice(contents, 4, Find(Drop(contents, 4), Dash3) + 4))
       IN  /\ hdr.ok
           /\ \/ ~hdr.date.some
              \/ ~NaiveDateParse(DateToString(hdr.date)).ok

\* The entry at which the last load stopped is entry i of the scan.
StoppedAt(i) ==
    /\ op = "new"
    /\ i \in 1..Len(scan)
    /\ PostRead(scan[i].path, scan[i].contents).kind # "Ok"
    /\ \A j \in 1..(i - 1) : PostRead(scan[j].path, scan[j].contents).kind = "Ok"

IsErrorValue(r) == r.kind \in {"ReadPostHeader", "ChronoParse"}

\* C3: a load that meets a file with no closing delimiter returns a parse
\* error naming that file; it does not panic and does not skip the file.
C3_MissingCloserIsErrorWithPath ==
    \A i \in 1..Len(scan) :
        (StoppedAt(i) /\ NoCloser(scan[i].contents)) =>
            /\ IsErrorValue(result)
            /\ result.hasPath /\ result.path = scan[i].path

\* C6: the file create_post wrote reads back as a post with the created
\* post's name and date, an empty title, no tags, and the summary sentinel
\* as its whole body.
C6_CreateReadRoundTrip ==
    op = "create" =>
        LET path == NewPostPath(result.post)
            r == IF path \in DOMAIN fs THEN PostRead(path, fs[path]) ELSE Panicked
        IN  /\ r.kind = "Ok"
            /\ r.post.name = result.post.name
            /\ r.post.title = <<>>
            /\ r.post.date = result.post.date
            /\ r.post.tags = <<>>
            /\ r.post.content = TOP_TAG

\* A post created on a leap day, as the second post of the repository.
C6_Witness ==
    /\ op = "create"
    /\ result.post.date = DateLeap
    /\ result.post.name = <<"1">>
    /\ fs[<<"1", ".", "m", "d">>] = NewPostFile(DateLeap)

\* C7: create_post names the new post after the post count, and neither a
\* post of the repository nor a file of the directory has that name yet.
C7_CreateNeverReusesName ==
    [][op' = "create" =>
        /\ result'.post.name = NatToString(Len(repo.posts))
        /\ \A i \in 1..Len(repo.posts) : repo.posts[i].name # result'.post.name
        /\ NewPostPath(result'.post) \notin DOMAIN fs]_vars

\* C10: a load that stops at a file whose header does not deserialize or
\* whose date does not parse returns an error carrying that file's path.
C10_HeaderAndDateErrorsCarryPath ==
    \A i \in 1..Len(scan) :
        (StoppedAt(i) /\ (HeaderFails(scan[i].contents) \/ DateFails(scan[i].contents))) =>
            /\ IsErrorValue(result)
            /\ result.hasPath /\ result.path = scan[i].path

\* C14: create_post appends one post to the sequence: the tag index is the
\* same before and after, the posts there were keep their contents and
\* positions, and the new post is the last one.
C14_CreateAppendsOnePost ==
    [][op' = "create" =>
        /\ repo'.tags = repo.tags
        /\ Len(repo'.posts) = Len(repo.posts) + 1
        /\ \A i \in 1..Len(repo.posts) : repo'.posts[i] = repo.posts[i]
        /\ repo'.posts[Len(repo'.posts)] = result'.post
        /\ repo'.live = repo.live]_vars

\* A post created in a repository that holds tagged posts.
C14_Witness ==
    /\ op = "create"
    /\ Len(repo.posts) >= 3
    /\ Len(repo.tags) >= 2
    /\ repo.posts[Len(repo.posts)] = result.post

\* C15: the posts of a repository are in descending (date, title) order
\* after the load and after every create_post.
C15_DescendingAfterCreate == repo.live => Descending(repo.posts)

----------------------------------------------------------------------------
(* Claims about the footnote and sidenote rewriting *)

\* The k-th smallest element of a set of positions.
Nth(S, k) == CHOOSE x \in S : Cardinality({y \in S : y <= x}) = k

SidenoteRefs(d) ==
    {i \in 1..Len(d) : d[i].kind = "FootnoteReference" /\ StartsWithS(d[i].text)}

SidenoteDefs(d) == {i \in 1..Len(d) : IsStartNote(d[i]) /\ StartsWithS(d[i].text)}

OrdinaryDefs(d) == {i \in 1..Len(d) : IsStartNote(d[i]) /\ ~StartsWithS(d[i].text)}

\* The end event of the definition that starts at position a.
DefEnd(d, a) ==
    CHOOSE b \in (a + 1)..Len(d) :
        IsEndNote(d[b]) /\ \A c \in (a + 1)..(b - 1) : ~IsEndNote(d[c])

\* The flattened text of the definition that starts at position a: its text
\* runs, a soft break counting as one space.
FlatText(d, a) ==
    Concat([k \in 1..(DefEnd(d, a) - a - 1) |->
                IF d[a + k].kind = "Text" THEN d[a + k].text
                ELSE IF d[a + k].kind = "SoftBreak" THEN <<" ">>
                ELSE <<>>])

\* C4: the k-th sidenote reference of the document is replaced, where it
\* stands, by the sidenote span around the flattened text of the k-th
\* sidenote definition.
C4_KthReferenceGetsKthSidenote ==
    rendered.done =>
        \A k \in 1..Cardinality(SidenoteRefs(doc)) :
            k <= Cardinality(SidenoteDefs(doc)) =>
                rendered.pushed[Nth(SidenoteRefs(doc), k)] =
                    <<Html(SidenoteSpan(FlatText(doc, Nth(SidenoteDefs(doc), k))))>>

\* Position i lies inside an ordinary (non-s) footnote definition.
InOrdinaryDef(d, i) == \E a \in OrdinaryDefs(d) : a < i /\ i < DefEnd(d, a)

IsNoteOpener(e) == e.kind = "Html" /\ \E label \in Labels : e.text = NoteOpen(label)

IsNoteCloser(e) == e.kind = "Html" /\ e.text = NoteClose

\* C5 as stated: inside an ordinary footnote definition every event that is
\* no paragraph start or end passes through unchanged.
C5_AllOtherBodyEventsUnchanged ==
    rendered.done =>
        \A i \in 1..Len(doc) :
            (InOrdinaryDef(doc, i) /\ ~IsParagraphEdge(doc[i])) =>
                rendered.pushed[i] = <<doc[i]>>

\* C5, amended: an ordinary footnote's reference passes through unchanged;
\* its definition's start becomes '<p><sup>label</sup> ' and its end '</p>';
\* inside it paragraph starts and ends are dropped and every other event
\* that is no footnote reference passes through unchanged (a reference in
\* the body is rewritten like a reference anywhere else); the output holds
\* no definition start or end, and openers and closers alternate, an opener
\* first and a closer last.
C5_OrdinaryFootnoteRewrite ==
    rendered.done =>
        /\ \A i \in 1..Len(doc) :
            LET e == doc[i]
                out == rendered.pushed[i]
            IN  /\ (e.kind = "FootnoteReference" /\ ~StartsWithS(e.text)) => out = <<e>>
                /\ (IsStartNote(e) /\ ~StartsWithS(e.text)) => out = <<Html(NoteOpen(e.text))>>
                /\ (IsEndNote(e) /\ ~StartsWithS(e.text)) => out = <<Html(NoteClose)>>
                /\ (InOrdinaryDef(doc, i) /\ IsParagraphEdge(e)) => out = <<>>
                /\ (InOrdinaryDef(doc, i) /\ ~IsParagraphEdge(e)
                        /\ e.kind # "FootnoteReference") => out = <<e>>
        /\ \A j \in 1..Len(rendered.events) :
            LET r == rendered.events
                marks == {m \in 1..Len(r) : IsNoteOpener(r[m]) \/ IsNoteCloser(r[m])}
            IN  /\ ~IsStartNote(r[j]) /\ ~IsEndNote(r[j])
                /\ IsNoteOpener(r[j]) =>
                    \E m \in marks : m > j /\ IsNoteCloser(r[m])
                                     /\ \A n \in marks : ~(j < n /\ n < m)
                /\ IsNoteCloser(r[j]) =>
                    \E m \in marks : m < j /\ IsNoteOpener(r[m])
                                     /\ \A n \in marks : ~(m < n /\ n < j)

\* A rewritten document with a referenced ordinary footnote whose body has
\* two paragraphs, a soft break, inline markup and inline code, next to a
\* sidenote.
C5_Witness ==
    /\ rendered.done
    /\ \E a \in OrdinaryDefs(doc) :
        /\ Cardinality({i \in (a + 1)..(DefEnd(doc, a) - 1) : IsParagraphEdge(doc[i])}) = 4
        /\ \E i \in (a + 1)..(DefEnd(doc, a) - 1) : doc[i].kind = "Code"
        /\ \E i \in (a + 1)..(DefEnd(doc, a) - 1) : doc[i].kind = "SoftBreak"
        /\ \E i \in (a + 1)..(DefEnd(doc, a) - 1) : doc[i] = FootnoteReference(LS2)
    /\ \E i \in 1..Len(doc) : doc[i] = FootnoteReference(L1) /\ ~InOrdinaryDef(doc, i)
    /\ SidenoteDefs(doc) # {}
    /\ \E j \in 1..Len(rendered.events) : IsNoteCloser(rendered.events[j])

\* The sidenote definitions of d in document order, by their start positions.
SidenoteDefSeq(d) ==
    [k \in 1..Cardinality(SidenoteDefs(d)) |-> Nth(SidenoteDefs(d), k)]

\* C11: the pre-scan of notes returns one entry per 's'-labelled footnote
\* definition and none for any other definition, each entry the flattened
\* text of its definition, the entries in reverse document order.
C11_PreScanCollectsOnlySidenotes ==
    rendered.done =>
        rendered.sidenotes =
            Reverse([k \in 1..Cardinality(SidenoteDefs(doc)) |->
                        FlatText(doc, SidenoteDefSeq(doc)[k])])

\* Position i lies in a sidenote definition, its start and end included.
InSidenoteDef(d, i) == \E a \in SidenoteDefs(d) : a <= i /\ i <= DefEnd(d, a)

\* C12: no event of an 's'-labelled footnote definition, from its start to
\* its end, reaches the output of the rewrite.
C12_SidenoteDefinitionEmitsNothing ==
    rendered.done =>
        \A i \in 1..Len(doc) : InSidenoteDef(doc, i) => rendered.pushed[i] = <<>>

----------------------------------------------------------------------------
(* Claims about the site builder *)

Written(kind) == {k \in 1..Len(log) : log[k].kind = kind}

NonReserved == {f \in contentFiles : FileStem(f) \notin RESERVED_CONTENT_NAMES}

\* The artifacts of a successful build, counted by kind.
OneArtifactEach ==
    /\ Cardinality(Written("index")) = 1
    /\ Cardinality(Written("not_found")) = 1
    /\ Cardinality(Written("content")) = Cardinality(NonReserved)
    /\ Cardinality(Written("post")) = Len(repo.posts)
    /\ Cardinality(Written("posts_index")) = 1
    /\ Cardinality(Written("tags_index")) = 1
    /\ Cardinality(Written("tag")) = Cardinality(AllTags(repo.posts))
    /\ Cardinality(Written("rss")) = 1

NoOverwrite == \A k, l \in 1..Len(log) : log[k].path = log[l].path => k = l

\* C8: a successful build has written one artifact of each kind the site
\* calls for, and no two of them to the same output path.
C8_OneArtifactEachNoOverwrite == pc = "done" => OneArtifactEach /\ NoOverwrite

PostArtifacts == SelectSeq(log, LAMBDA a : a.kind = "post")

Rendered(j) == RenderHtml(markdown[j], {}).html

\* C9: every post body goes through render_html at most once, has gone
\* through it once when the post's artifact or the RSS feed is written, and
\* both artifacts hold the rendering of the body as it was loaded.
C9_PostBodiesRenderedOnce ==
    /\ \A j \in DOMAIN renders : renders[j] <= 1
    /\ \A j \in 1..Len(PostArtifacts) :
        /\ renders[j] = 1
        /\ PostArtifacts[j].subject = repo.posts[j].name
        /\ PostArtifacts[j].bodies = <<Rendered(j)>>
    /\ \A k \in Written("rss") :
        /\ \A j \in DOMAIN renders : renders[j] = 1
        /\ log[k].bodies = [j \in 1..Len(markdown) |-> Rendered(j)]
    /\ pc = "done" => \A j \in DOMAIN renders : renders[j] = 1

C9_Witness ==
    /\ pc = "done"
    /\ Len(repo.posts) >= 2
    /\ \E j \in 1..Len(markdown) : markdown[j] = Body /\ Rendered(j) # Body
    /\ Written("rss") # {}
    /\ Len(PostArtifacts) = Len(repo.posts)

----------------------------------------------------------------------------
(* Claims about the highlighting of code blocks *)

CodeStarts(d) == {i \in 1..Len(d) : d[i].kind = "Start" /\ IsCodeBlock(d[i])}

\* The end event of the code block that starts at position a.
CodeEnd(d, a) ==
    CHOOSE b \in (a + 1)..Len(d) :
        /\ d[b].kind = "End" /\ IsCodeBlock(d[b])
        /\ \A c \in (a + 1)..(b - 1) : ~(d[c].kind = "End" /\ IsCodeBlock(d[c]))

\* Position i lies in a code block, its start and end included.
InCodeBlock(d, i) == \E a \in CodeStarts(d) : a <= i /\ i <= CodeEnd(d, a)

\* The text of the code block that starts at position a.
CodeText(d, a) ==
    Concat([k \in 1..(CodeEnd(d, a) - a - 1) |-> d[a + k].text])

\* The syntax of a block: its language when known, plain text otherwise.
ExpectedSyntax(e) ==
    IF e.tag = "CodeBlock" /\ e.text \in KnownExtensions THEN e.text ELSE PlainText

\* The document with every code block replaced by one literal-HTML event.
ExpectedHighlight(d) ==
    Concat([i \in 1..Len(d) |->
        IF i \in CodeStarts(d)
        THEN <<Html(HighlightedHtml(CodeText(d, i), ExpectedSyntax(d[i])))>>
        ELSE IF InCodeBlock(d, i) THEN <<>>
        ELSE <<d[i]>>])

\* C13: syntax_hl fails exactly when the engine fails on the text of some
\* code block, and then returns no events; otherwise it returns the document
\* with each code block replaced, where it stood, by one literal-HTML event
\* built from that block's text alone, under the block's language when known
\* and under plain text otherwise, every other event unchanged and in order.
C13_CodeBlocksReplacedByHighlight ==
    highlighted.done =>
        LET fails == \E a \in CodeStarts(parsed) : CodeText(parsed, a) \in highlighted.broken
        IN  /\ highlighted.ok = ~fails
            /\ fails => highlighted.events = <<>>
            /\ ~fails => highlighted.events = ExpectedHighlight(parsed)

\* A highlighted document with two code blocks that hold text, one of them
\* with an unknown language, and a block that is no code block.
C13_Witness ==
    /\ highlighted.done /\ highlighted.ok
    /\ highlighted.broken # {}
    /\ \E a, b \in CodeStarts(parsed) :
        /\ a < b
        /\ CodeText(parsed, a) # <<>> /\ CodeText(parsed, b) # <<>>
        /\ parsed[b].text = <<"z", "z">>
    /\ \E i \in 1..Len(parsed) : ~InCodeBlock(parsed, i)
    /\ Len(highlighted.events) >= 3

====
